---- MODULE Spec2Model ----
(***************************************************************************)
(* A model of the quiz engine of ai_study_assistant/minigames/quiz_game.py *)
(* (class QuizGame): the JSON-file question-bank store and the in-memory   *)
(* quiz session that is created from a bank and graded one answer at a     *)
(* time; and of the flashcard sets of minigames/flashcards.py (class       *)
(* FlashcardGame) with their review selector.                              *)
(*                                                                         *)
(* Conventions.                                                            *)
(*  - Python None is the empty sequence <<>>, a non-None value v of a      *)
(*    nullable field is <<v>>.                                             *)
(*  - A timestamp (datetime.now().isoformat()) is the integer value of     *)
(*    the clock at the call; every call that reads the clock advances it.  *)
(*  - uuid.uuid4() is a choice among the identifiers not yet in use.       *)
(*  - A file of the storage directory is NoFile or [kind |-> "json", doc]; *)
(*    json_dump and json_load are the two directions.                      *)
(***************************************************************************)
EXTENDS Integers, Sequences, FiniteSets, TLC

VARIABLES
    store,      \* QuizGame.storage_dir: quiz id -> file "<id>.json"
    sets,       \* FlashcardGame.storage_dir: set id -> file "<id>.json"
    session,    \* the session dict the caller holds (NoSession before any)
    calls,      \* the add_question calls in flight: thread -> its position and locals
    ret,        \* what the last call returned (or raised)
    op,         \* the last call and its arguments
    clock       \* datetime.now()

vars == <<store, sets, session, calls, ret, op, clock>>

----------------------------------------------------------------------------
(* Bounds of the model *)

MaxQuizzes == 2
MaxQuestions == 2
MaxClock == 3
MaxSessionBank == 2
MaxTamperBank == 1
MaxScoreN == 8
MaxBankN == 7
MaxSets == 1
MaxCards == 2

(* Program constants *)

\* get_random_questions(self, quiz_id, count=5)
DefaultCount == 5

----------------------------------------------------------------------------
(* Values *)

None == <<>>
Some(v) == <<v>>

QuizIds == 1..MaxQuizzes
\* identifiers a caller may pass: the allocated ones and one that names no file
LookupIds == 0..MaxQuizzes
QuestionIds == 1..MaxQuestions
SetIds == 1..MaxSets
SetLookupIds == 0..MaxSets
CardIds == 1..MaxCards
CardLookupIds == 0..MaxCards

NoFile == [kind |-> "absent"]
\* a file whose content json.load rejects
CorruptFile == [kind |-> "corrupt"]
NoSession == [kind |-> "no session"]

\* the threads that call into one QuizGame
Threads == {"t1", "t2"}

\* a thread that is in no call
Idle == [pc |-> "idle"]
NoCalls == [t \in Threads |-> Idle]

\* the flashcard directory after FlashcardGame.__init__: no files
EmptySets == [i \in SetIds |-> NoFile]

RetNone == [kind |-> "None"]
RetQuiz(q) == [kind |-> "quiz", quiz |-> q]
RetSession(s) == [kind |-> "session", session |-> s]
RetList(l) == [kind |-> "list", list |-> l]
RetSet(s) == [kind |-> "set", set |-> s]
RetRaised(e) == [kind |-> "raised", error |-> e]

\* arguments of create_set: (title, description)
SetInputs ==
    { [title |-> "Arithmetic", description |-> ""] }

\* arguments of add_card: (front, back, tags)
CardInputs ==
    { [front |-> "2+2", back |-> "4", tags |-> None],
      [front |-> "cell", back |-> "unit of life", tags |-> Some(<<"bio">>)] }

\* difficulty arguments of record_review: below 0..3, in it and above
Difficulties == {-2, 3, 7}

\* arguments of create_quiz: (title, description, category)
QuizInputs ==
    { [title |-> "Algebra", description |-> "", category |-> "general"],
      [title |-> "Biology", description |-> "cells", category |-> "science"] }

\* arguments of add_question: (question_text, answers, correct_answer_index, explanation)
QuestionInputs ==
    { [question_text |-> "2+2?", answers |-> <<"3", "4">>,
       correct_answer_index |-> 1, explanation |-> "sum"],
      [question_text |-> "capital?", answers |-> <<"Oslo", "Rome", "Bern">>,
       correct_answer_index |-> 0, explanation |-> ""],
      [question_text |-> "odd one?", answers |-> <<"a", "b">>,
       correct_answer_index |-> 2, explanation |-> ""] }

----------------------------------------------------------------------------
(* The store: _save_quiz, get_quiz *)

json_dump(doc) == [kind |-> "json", doc |-> doc]

\* json.load: the document of a well-formed file; anything else raises
json_loadable(file) == file.kind = "json"
json_load(file) == file.doc

path_exists(st, quiz_id) == quiz_id \in DOMAIN st /\ st[quiz_id] # NoFile

\* _save_quiz: open(<id>.json, 'w'); json.dump(quiz)
save_quiz(st, quiz) == [st EXCEPT ![quiz.id] = json_dump(quiz)]

\* get_quiz: None if the file is missing or does not load
get_quiz(st, quiz_id) ==
    IF ~path_exists(st, quiz_id) THEN None
    ELSE IF ~json_loadable(st[quiz_id]) THEN None
    ELSE Some(json_load(st[quiz_id]))

\* the identifiers uuid4 can still return
FreshQuizIds(st) == { i \in QuizIds : ~path_exists(st, i) }

UsedQuestionIds(st) ==
    UNION { { st[i].doc.questions[k].id : k \in 1..Len(st[i].doc.questions) }
            : i \in { j \in DOMAIN st : st[j].kind = "json" } }

FreshQuestionIds(st) == QuestionIds \ UsedQuestionIds(st)

\* mutant: title and description stored in each other's place
new_quiz_swapped(quiz_id, title, description, category, now) ==
    [ id |-> quiz_id,
      title |-> description,
      description |-> title,
      category |-> category,
      created_at |-> now,
      updated_at |-> now,
      questions |-> <<>> ]

\* create_quiz: the quiz dict built and saved under a new id
new_quiz(quiz_id, title, description, category, now) ==
    [ id |-> quiz_id,
      title |-> title,
      description |-> description,
      category |-> category,
      created_at |-> now,
      updated_at |-> now,
      questions |-> <<>> ]

create_quiz(st, quiz_id, title, description, category, now) ==
    LET quiz == new_quiz(quiz_id, title, description, category, now)
    IN  [store |-> save_quiz(st, quiz), ret |-> RetQuiz(quiz)]

new_question(question_id, question_text, answers, correct_answer_index, explanation) ==
    [ id |-> question_id,
      question_text |-> question_text,
      answers |-> answers,
      correct_answer_index |-> correct_answer_index,
      explanation |-> explanation ]

\* mutant: the new question put in front (insert(0, ...) for append)
append_question_front(quiz, q, now) ==
    [quiz EXCEPT !.questions = <<q>> \o @, !.updated_at = now]

\* quiz["questions"].append(new_question); quiz["updated_at"] = now
append_question(quiz, q, now) ==
    [quiz EXCEPT !.questions = Append(@, q), !.updated_at = now]

\* mutant: a quiz that does not load is created with the question
add_question_upsert(st, quiz_id, question_id, question_text, answers, correct_answer_index, explanation, now) ==
    LET found == get_quiz(st, quiz_id)
        base == IF found = None THEN new_quiz(quiz_id, "", "", "general", now) ELSE found[1]
        quiz == append_question(base,
                    new_question(question_id, question_text, answers,
                                 correct_answer_index, explanation),
                    now)
    IN  [store |-> IF quiz_id \in DOMAIN st THEN save_quiz(st, quiz) ELSE st,
         ret |-> RetQuiz(quiz)]

\* add_question: None when the quiz does not load, else the updated quiz, saved
add_question(st, quiz_id, question_id, question_text, answers, correct_answer_index, explanation, now) ==
    LET found == get_quiz(st, quiz_id)
    IN  IF found = None
        THEN [store |-> st, ret |-> RetNone]
        ELSE LET quiz == append_question(found[1],
                            new_question(question_id, question_text, answers,
                                         correct_answer_index, explanation),
                            now)
             IN  [store |-> save_quiz(st, quiz), ret |-> RetQuiz(quiz)]

\* os.listdir(storage_dir): the files present, in any order
DirOrders(st) ==
    LET present == { i \in DOMAIN st : st[i] # NoFile }
    IN  { o \in [1..Cardinality(present) -> present] :
            \A a, b \in 1..Cardinality(present) : a # b => o[a] # o[b] }

\* mutant: the category filter dropped
category_excluded_never(category, quiz) == FALSE

\* if category and quiz.get("category") != category: continue
category_excluded(category, quiz) ==
    /\ category # None
    /\ category # Some("")
    /\ Some(quiz.category) # category

\* quiz["question_count"] = len(quiz.get("questions", [])); del quiz["questions"]
quiz_summary(quiz) ==
    [ id |-> quiz.id,
      title |-> quiz.title,
      description |-> quiz.description,
      category |-> quiz.category,
      created_at |-> quiz.created_at,
      updated_at |-> quiz.updated_at,
      question_count |-> Len(quiz.questions) ]

\* the loop of list_quizzes from the k-th file on: a file that does not load
\* raises out of the loop, and what was gathered before it is returned
RECURSIVE list_from(_, _, _, _)
list_from(st, order, category, k) ==
    IF k > Len(order) THEN <<>>
    ELSE IF ~json_loadable(st[order[k]]) THEN <<>>
    ELSE LET quiz == json_load(st[order[k]])
         IN  IF category_excluded(category, quiz)
             THEN list_from(st, order, category, k + 1)
             ELSE <<quiz_summary(quiz)>> \o list_from(st, order, category, k + 1)

\* list_quizzes, for the order in which os.listdir returned the files
list_quizzes(st, order, category) == list_from(st, order, category, 1)

\* f"Quiz generated from content: {title}"
GeneratedDescription(title) ==
    CASE title = "Algebra" -> "Quiz generated from content: Algebra"
      [] title = "Biology" -> "Quiz generated from content: Biology"

\* the arguments of the add_question call in generate_quiz_from_text
PlaceholderQuestion ==
    [ question_text |-> "What is the main purpose of this feature?",
      answers |-> << "To demonstrate quiz functionality",
                     "To test your knowledge",
                     "To generate real questions from text",
                     "To replace human-created quizzes" >>,
      correct_answer_index |-> 0,
      explanation |-> "This is just a placeholder showing the structure of auto-generated quizzes." ]

\* mutant: the placeholder question is never added
generate_quiz_from_text_bare(st, quiz_id, question_id, title, text_content, question_count, now) ==
    create_quiz(st, quiz_id, title, GeneratedDescription(title), "auto-generated", now)

\* generate_quiz_from_text: create_quiz, then add_question on the new id; what is
\* returned is the dict create_quiz returned
generate_quiz_from_text(st, quiz_id, question_id, title, text_content, question_count, now) ==
    LET created == create_quiz(st, quiz_id, title, GeneratedDescription(title),
                               "auto-generated", now)
        added == add_question(created.store, created.ret.quiz.id, question_id,
                              PlaceholderQuestion.question_text,
                              PlaceholderQuestion.answers,
                              PlaceholderQuestion.correct_answer_index,
                              PlaceholderQuestion.explanation, now + 1)
    IN  [store |-> added.store, ret |-> created.ret]

----------------------------------------------------------------------------
(* The store's operations as steps *)

CreateQuiz ==
    /\ clock < MaxClock
    /\ \E in \in QuizInputs, quiz_id \in FreshQuizIds(store) :
         LET r == create_quiz(store, quiz_id, in.title, in.description,
                              in.category, clock)
         IN  /\ store' = r.store
             /\ ret' = r.ret
             /\ op' = [name |-> "create_quiz", title |-> in.title,
                       description |-> in.description, category |-> in.category]
    /\ clock' = clock + 1
    /\ UNCHANGED <<calls, session, sets>>

AddQuestion ==
    /\ clock < MaxClock
    /\ \E quiz_id \in LookupIds, in \in QuestionInputs :
         \* uuid4 is drawn only once the quiz has loaded
         \E question_id \in (IF get_quiz(store, quiz_id) = None
                             THEN {0} ELSE FreshQuestionIds(store)) :
           LET r == add_question(store, quiz_id, question_id, in.question_text,
                                 in.answers, in.correct_answer_index,
                                 in.explanation, clock)
           IN  /\ store' = r.store
               /\ ret' = r.ret
               /\ op' = [name |-> "add_question", quiz_id |-> quiz_id,
                         answers |-> in.answers,
                         correct_answer_index |-> in.correct_answer_index]
    /\ clock' = clock + 1
    /\ UNCHANGED <<calls, session, sets>>

GetQuiz ==
    /\ \E quiz_id \in LookupIds :
         LET found == get_quiz(store, quiz_id)
         IN  /\ ret' = (IF found = None THEN RetNone ELSE RetQuiz(found[1]))
             /\ op' = [name |-> "get_quiz", quiz_id |-> quiz_id]
    /\ UNCHANGED <<calls, store, sets, session, clock>>

\* the category arguments of list_quizzes: none, empty, and two in use
ListCategories == {None, Some(""), Some("general"), Some("science")}

ListQuizzes ==
    /\ \E category \in ListCategories, order \in DirOrders(store) :
         /\ ret' = RetList(list_quizzes(store, order, category))
         /\ op' = [name |-> "list_quizzes", category |-> category]
    /\ UNCHANGED <<calls, store, sets, session, clock>>

\* the arguments of generate_quiz_from_text
Titles == {"Algebra", "Biology"}
TextContents == {"", "Cells are the units of life."}
QuestionCounts == {0, 5}

GenerateQuizFromText ==
    /\ clock + 1 < MaxClock
    /\ \E title \in Titles, text_content \in TextContents,
          question_count \in QuestionCounts,
          quiz_id \in FreshQuizIds(store), question_id \in FreshQuestionIds(store) :
         LET r == generate_quiz_from_text(store, quiz_id, question_id, title,
                                          text_content, question_count, clock)
         IN  /\ store' = r.store
             /\ ret' = r.ret
             /\ op' = [name |-> "generate_quiz_from_text", title |-> title,
                       text_content |-> text_content,
                       question_count |-> question_count]
    /\ clock' = clock + 2
    /\ UNCHANGED <<calls, session, sets>>

EmptyStore == [i \in QuizIds |-> NoFile]

----------------------------------------------------------------------------
(* The session engine: get_random_questions, create_quiz_session,          *)
(* answer_question                                                         *)

SessionIds == {"s1"}
UserIds == {None, Some("u1")}
AnswerIdxs == {0, 1}

\* the orders in which k of n list positions can be drawn without replacement
InjectiveSeqs(n, k) ==
    { s \in [1..k -> 1..n] : \A i, j \in 1..k : i # j => s[i] # s[j] }

\* mutant: a draw with replacement (random.choices for random.sample)
random_sample_with_replacement(questions, count) ==
    { [i \in 1..count |-> questions[s[i]]] : s \in [1..count -> 1..Len(questions)] }

\* random.sample(questions, count): count distinct positions, in any order
random_sample(questions, count) ==
    { [i \in 1..count |-> questions[s[i]]] : s \in InjectiveSeqs(Len(questions), count) }

\* random.shuffle(questions): any permutation of the list
random_shuffle(questions) ==
    { [i \in 1..Len(questions) |-> questions[s[i]]]
      : s \in InjectiveSeqs(Len(questions), Len(questions)) }

\* get_random_questions: the lists the call may return
get_random_questions(st, quiz_id, count) ==
    LET found == get_quiz(st, quiz_id)
    IN  IF found = None \/ found[1].questions = <<>>
        THEN { <<>> }
        ELSE IF Len(found[1].questions) > count
             THEN random_sample(found[1].questions, count)
             ELSE random_shuffle(found[1].questions)

\* mutant: is_correct initialised to False
session_question_false(q) ==
    [ id |-> q.id,
      question_text |-> q.question_text,
      answers |-> q.answers,
      correct_answer_index |-> q.correct_answer_index,
      explanation |-> q.explanation,
      user_answer_index |-> None,
      is_correct |-> Some(FALSE) ]

\* for question in session["questions"]: user_answer_index = None; is_correct = None
session_question(q) ==
    [ id |-> q.id,
      question_text |-> q.question_text,
      answers |-> q.answers,
      correct_answer_index |-> q.correct_answer_index,
      explanation |-> q.explanation,
      user_answer_index |-> None,
      is_correct |-> None ]

\* mutant: no "if not questions: return None"
create_quiz_session_unguarded(st, quiz_id, user_id, questions, session_id, now) ==
    LET found == get_quiz(st, quiz_id)
    IN  IF found = None THEN None
        ELSE Some([ id |-> session_id,
                    quiz_id |-> quiz_id,
                    user_id |-> user_id,
                    title |-> found[1].title,
                    started_at |-> now,
                    completed_at |-> None,
                    questions |-> [i \in 1..Len(questions) |-> session_question(questions[i])],
                    current_question_index |-> 0,
                    answers |-> <<>>,
                    score |-> None ])

\* create_quiz_session, given the list get_random_questions returned
create_quiz_session(st, quiz_id, user_id, questions, session_id, now) ==
    LET found == get_quiz(st, quiz_id)
    IN  IF found = None THEN None
        ELSE IF questions = <<>> THEN None
        ELSE Some([ id |-> session_id,
                    quiz_id |-> quiz_id,
                    user_id |-> user_id,
                    title |-> found[1].title,
                    started_at |-> now,
                    completed_at |-> None,
                    questions |-> [i \in 1..Len(questions) |-> session_question(questions[i])],
                    current_question_index |-> 0,
                    answers |-> <<>>,
                    score |-> None ])

\* Python's list indexing: position (1-based) of l[i] in a list of n items, 0 for IndexError
list_index(n, i) ==
    IF 0 <= i /\ i < n THEN i + 1
    ELSE IF i < 0 /\ -n <= i THEN n + i + 1
    ELSE 0

\* the guard of answer_question: if question_index >= len(session["questions"]): return session
index_rejected(question_index, n) == question_index >= n

\* for q in quiz["questions"]: if q["id"] == question["id"]: original_question = q; break
find_original(quiz, question) ==
    LET hits == { k \in 1..Len(quiz.questions) : quiz.questions[k].id = question.id }
    IN  IF hits = {} THEN None
        ELSE Some(quiz.questions[CHOOSE k \in hits : \A m \in hits : k <= m])

\* mutant: graded against the session's own copy of the question
grade_by_copy(answer_index, original_question, question) ==
    answer_index = question.correct_answer_index

\* correct_answer_index = original_question["correct_answer_index"]
\* question["is_correct"] = (answer_index == correct_answer_index)
grade(answer_index, original_question, question) ==
    answer_index = original_question.correct_answer_index

\* mutant: an answer already recorded is kept
record_answer_keep_first(question, answer_index, original_question) ==
    IF question.user_answer_index # None THEN question
    ELSE [question EXCEPT
            !.user_answer_index = Some(answer_index),
            !.is_correct = Some(answer_index = original_question.correct_answer_index),
            !.explanation = original_question.explanation]

\* question["user_answer_index"] = answer_index; question["is_correct"] = ...;
\* question["explanation"] = original_question.get("explanation", "")
record_answer(question, answer_index, original_question) ==
    [question EXCEPT
       !.user_answer_index = Some(answer_index),
       !.is_correct = Some(grade(answer_index, original_question, question)),
       !.explanation = original_question.explanation]

\* sum(1 for q in session["questions"] if q.get("is_correct", False))
correct_count(questions) ==
    Cardinality({ k \in 1..Len(questions) : questions[k].is_correct = Some(TRUE) })

\* mutant: int() for round(): the percentage truncated
round_percent_truncated(c, n) == (100 * c) \div n

\* Python's round() of the double (c / n) * 100: nearest integer, a tie to the even
\* one.  For n < 40 the double (c / n) * 100 rounds as the exact 100 * c / n does
\* (the first n where it does not is 40: (23 / 40) * 100 = 57.49999999999999).
round_percent(c, n) ==
    LET q == (100 * c) \div n
        r == (100 * c) % n
    IN  IF 2 * r < n THEN q
        ELSE IF 2 * r > n THEN q + 1
        ELSE IF q % 2 = 0 THEN q ELSE q + 1

\* mutant: the completion step without the score
complete_without_score(sess, now) ==
    [sess EXCEPT !.completed_at = Some(now)]

\* the completion step: completed_at = now; score = round(correct_count / len * 100)
complete(sess, now) ==
    [sess EXCEPT !.completed_at = Some(now),
                 !.score = Some(round_percent(correct_count(sess.questions),
                                              Len(sess.questions)))]

\* session["current_question_index"] = question_index + 1
advance(question_index) == question_index + 1

\* the test that ends the quiz: current_question_index >= len(session["questions"])
is_completed(current_question_index, n) == current_question_index >= n

\* answer_question: the session after the call, what the call returned, and
\* whether it read the clock
answer_question(st, sess, question_index, answer_index, now) ==
    LET n == Len(sess.questions)
        unchanged == [session |-> sess, ret |-> RetSession(sess), read_clock |-> FALSE]
    IN  IF index_rejected(question_index, n) THEN unchanged
        ELSE IF list_index(n, question_index) = 0
        THEN [session |-> sess, ret |-> RetRaised("IndexError"), read_clock |-> FALSE]
        ELSE
        LET pos == list_index(n, question_index)
            question == sess.questions[pos]
            found == get_quiz(st, sess.quiz_id)
        IN  IF found = None THEN unchanged
            ELSE
            LET original == find_original(found[1], question)
            IN  IF original = None THEN unchanged
                ELSE
                LET answered == record_answer(question, answer_index, original[1])
                    moved == [sess EXCEPT
                                !.questions[pos] = answered,
                                !.current_question_index = advance(question_index)]
                    done == is_completed(moved.current_question_index, n)
                    result == IF done THEN complete(moved, now) ELSE moved
                IN  [session |-> result, ret |-> RetSession(result), read_clock |-> done]

----------------------------------------------------------------------------
(* The session engine's operations as steps *)

CreateQuizSession ==
    /\ clock < MaxClock
    /\ \E quiz_id \in LookupIds, user_id \in UserIds, session_id \in SessionIds :
       \E questions \in get_random_questions(store, quiz_id, DefaultCount) :
         LET made == create_quiz_session(store, quiz_id, user_id, questions,
                                         session_id, clock)
         IN  /\ ret' = (IF made = None THEN RetNone ELSE RetSession(made[1]))
             /\ session' = (IF made = None THEN session ELSE made[1])
             /\ clock' = (IF made = None THEN clock ELSE clock + 1)
             /\ op' = [name |-> "create_quiz_session", quiz_id |-> quiz_id]
    /\ UNCHANGED <<calls, store, sets>>

\* what the addressed question held as user_answer_index when the call was made
\* (None too when the index addresses no question)
prev_answer(sess, question_index) ==
    IF list_index(Len(sess.questions), question_index) = 0 THEN None
    ELSE sess.questions[list_index(Len(sess.questions), question_index)].user_answer_index

\* the question indices a caller may pass: in range, negative, and beyond both ends
QuestionIdxs(sess) == -(Len(sess.questions) + 1) .. (Len(sess.questions) + 1)

\* one call answer_question(session, question_index, answer_index)
Answer(question_index, answer_index) ==
    LET r == answer_question(store, session, question_index, answer_index, clock)
    IN  /\ r.read_clock => clock < MaxClock
        /\ session' = r.session
        /\ ret' = r.ret
        /\ clock' = (IF r.read_clock THEN clock + 1 ELSE clock)
        /\ op' = [name |-> "answer_question", question_index |-> question_index,
                  answer_index |-> answer_index,
                  prev_answer |-> prev_answer(session, question_index),
                  completed |-> r.read_clock]
        /\ UNCHANGED <<calls, store, sets>>

AnswerQuestion ==
    /\ session # NoSession
    /\ \E question_index \in QuestionIdxs(session), answer_index \in AnswerIdxs :
         Answer(question_index, answer_index)

\* the session dict is the caller's between calls: the copy of a question's
\* correct_answer_index it carries is whatever the caller sends back
CallerEditsCopy ==
    /\ session # NoSession
    /\ \E pos \in 1..Len(session.questions), v \in AnswerIdxs :
         /\ session.questions[pos].correct_answer_index # v
         /\ session' = [session EXCEPT !.questions[pos].correct_answer_index = v]
    /\ op' = [name |-> "caller_edit"]
    /\ ret' = RetNone
    /\ UNCHANGED <<calls, store, sets, clock>>

\* the arguments of the k-th add_question call that builds a bank
SeedQuestion(k) ==
    [ question_text |-> "q", answers |-> <<"no", "yes">>,
      correct_answer_index |-> k % 2, explanation |-> "why" ]

\* the store after create_quiz and k add_question calls, the last at time -1
RECURSIVE BuildBank(_, _)
BuildBank(k, total) ==
    IF k = 0
    THEN create_quiz(EmptyStore, 1, "Algebra", "", "general", -(total + 1)).store
    ELSE add_question(BuildBank(k - 1, total), 1, k, SeedQuestion(k).question_text,
                      SeedQuestion(k).answers, SeedQuestion(k).correct_answer_index,
                      SeedQuestion(k).explanation, k - (total + 1)).store

InitSession ==
    /\ store \in { BuildBank(k, k) : k \in 0..MaxSessionBank }
    /\ session = NoSession
    /\ sets = EmptySets
    /\ calls = NoCalls
    /\ ret = RetNone
    /\ op = [name |-> "init"]
    /\ clock = 0

NextSession == CreateQuizSession \/ AnswerQuestion

SpecSession == InitSession /\ [][NextSession]_vars

\* the same engine with a caller that edits the copies it holds
InitTamper ==
    /\ store \in { BuildBank(k, k) : k \in 0..MaxTamperBank }
    /\ session = NoSession
    /\ sets = EmptySets
    /\ calls = NoCalls
    /\ ret = RetNone
    /\ op = [name |-> "init"]
    /\ clock = 0

NextTamper == CreateQuizSession \/ AnswerQuestion \/ CallerEditsCopy

SpecTamper == InitTamper /\ [][NextTamper]_vars

----------------------------------------------------------------------------
(* Scoring: a caller that answers where the session's cursor points, or    *)
(* jumps to the last question, on a session over all the questions of a    *)
(* bank of 1..MaxScoreN questions (what create_quiz_session builds from    *)
(* the list get_random_questions returns for a count of that size)         *)

ScoreSession(n) ==
    LET st == BuildBank(n, n)
    IN  create_quiz_session(st, 1, None, get_quiz(st, 1)[1].questions, "s1", 0)[1]

InitScore ==
    \E n \in 1..MaxScoreN :
        /\ store = BuildBank(n, n)
        /\ session = ScoreSession(n)
        /\ sets = EmptySets
        /\ calls = NoCalls
        /\ ret = RetSession(session)
        /\ op = [name |-> "create_quiz_session", quiz_id |-> 1]
        /\ clock = 1

AnswerAtCursor ==
    /\ session # NoSession
    /\ session.current_question_index < Len(session.questions)
    /\ \E answer_index \in AnswerIdxs :
         Answer(session.current_question_index, answer_index)

AnswerLastQuestion ==
    /\ session # NoSession
    /\ \E answer_index \in AnswerIdxs :
         Answer(Len(session.questions) - 1, answer_index)

NextScore == AnswerAtCursor \/ AnswerLastQuestion

SpecScore == InitScore /\ [][NextScore]_vars

----------------------------------------------------------------------------
(* Sampling: the first draw from a bank of 0..MaxBankN questions, by      *)
(* get_random_questions itself or through create_quiz_session             *)

\* mutant: the shuffled list is written back to the file
GetRandomQuestionsSaved ==
    /\ \E quiz_id \in LookupIds :
       \E questions \in get_random_questions(store, quiz_id, DefaultCount) :
         /\ ret' = RetList(questions)
         /\ op' = [name |-> "get_random_questions", quiz_id |-> quiz_id]
         /\ store' = IF get_quiz(store, quiz_id) = None THEN store
                     ELSE save_quiz(store, [get_quiz(store, quiz_id)[1]
                                              EXCEPT !.questions = questions])
    /\ UNCHANGED <<sets, session, calls, clock>>

GetRandomQuestions ==
    /\ \E quiz_id \in LookupIds :
       \E questions \in get_random_questions(store, quiz_id, DefaultCount) :
         /\ ret' = RetList(questions)
         /\ op' = [name |-> "get_random_questions", quiz_id |-> quiz_id]
    /\ UNCHANGED <<calls, store, sets, session, clock>>

InitSample ==
    /\ store \in { BuildBank(k, k) : k \in 0..MaxBankN }
    /\ session = NoSession
    /\ sets = EmptySets
    /\ calls = NoCalls
    /\ ret = RetNone
    /\ op = [name |-> "init"]
    /\ clock = 0

FirstQuizSession ==
    /\ op.name = "init"
    /\ CreateQuizSession

FirstRandomQuestions ==
    /\ op.name = "init"
    /\ GetRandomQuestions

NextSample == FirstQuizSession \/ FirstRandomQuestions

SpecSample == InitSample /\ [][NextSample]_vars

----------------------------------------------------------------------------
(* The flashcard sets: _save_set, get_set, create_set, add_card,           *)
(* get_cards_to_review, record_review                                      *)

\* _save_set: open(<id>.json, 'w'); json.dump(flashcard_set)
save_set(st, flashcard_set) == [st EXCEPT ![flashcard_set.id] = json_dump(flashcard_set)]

\* get_set: None if the file is missing or does not load
get_set(st, set_id) ==
    IF ~path_exists(st, set_id) THEN None
    ELSE IF ~json_loadable(st[set_id]) THEN None
    ELSE Some(json_load(st[set_id]))

FreshSetIds(st) == { i \in SetIds : ~path_exists(st, i) }

UsedCardIds(st) ==
    UNION { { st[i].doc.cards[k].id : k \in 1..Len(st[i].doc.cards) }
            : i \in { j \in DOMAIN st : st[j].kind = "json" } }

FreshCardIds(st) == CardIds \ UsedCardIds(st)

\* create_set: the set dict built and saved under a new id
create_set(st, set_id, title, description, now) ==
    LET flashcard_set == [ id |-> set_id,
                           title |-> title,
                           description |-> description,
                           created_at |-> now,
                           updated_at |-> now,
                           cards |-> <<>> ]
    IN  [store |-> save_set(st, flashcard_set), ret |-> RetSet(flashcard_set)]

\* the card dict of add_card; tags or []
new_card(card_id, front, back, tags, now) ==
    [ id |-> card_id,
      front |-> front,
      back |-> back,
      tags |-> IF tags = None THEN <<>> ELSE tags[1],
      created_at |-> now,
      last_reviewed |-> None,
      review_count |-> 0,
      difficulty |-> 0 ]

\* add_card: None when the set does not load, else the updated set, saved
add_card(st, set_id, card_id, front, back, tags, now) ==
    LET found == get_set(st, set_id)
    IN  IF found = None
        THEN [store |-> st, ret |-> RetNone]
        ELSE LET flashcard_set ==
                     [found[1] EXCEPT
                        !.cards = Append(@, new_card(card_id, front, back, tags, now)),
                        !.updated_at = now]
             IN  [store |-> save_set(st, flashcard_set), ret |-> RetSet(flashcard_set)]

\* flashcard_set["card_count"] = len(flashcard_set.get("cards", [])); del flashcard_set["cards"]
set_summary(flashcard_set) ==
    [ id |-> flashcard_set.id,
      title |-> flashcard_set.title,
      description |-> flashcard_set.description,
      created_at |-> flashcard_set.created_at,
      updated_at |-> flashcard_set.updated_at,
      card_count |-> Len(flashcard_set.cards) ]

\* the loop of list_sets from the k-th file on: a file that does not load
\* raises out of the loop, and what was gathered before it is returned
RECURSIVE list_sets_from(_, _, _)
list_sets_from(st, order, k) ==
    IF k > Len(order) THEN <<>>
    ELSE IF ~json_loadable(st[order[k]]) THEN <<>>
    ELSE <<set_summary(json_load(st[order[k]]))>> \o list_sets_from(st, order, k + 1)

\* list_sets, for the order in which os.listdir returned the files
list_sets(st, order) == list_sets_from(st, order, 1)

\* the sort key of get_cards_to_review
review_key(card) ==
    << IF card.last_reviewed = None THEN 0 ELSE 1,
       card.difficulty,
       0 - card.review_count >>

\* Python's < on two tuples of three integers
tuple_less(a, b) ==
    \/ a[1] < b[1]
    \/ a[1] = b[1] /\ a[2] < b[2]
    \/ a[1] = b[1] /\ a[2] = b[2] /\ a[3] < b[3]

\* mutant: among equal keys the later card comes first
sorted_rank_ties_reversed(cards, i) ==
    1 + Cardinality({ j \in 1..Len(cards) :
                        \/ tuple_less(review_key(cards[j]), review_key(cards[i]))
                        \/ /\ review_key(cards[j]) = review_key(cards[i])
                           /\ j > i })

\* the place sorted() gives the i-th card: behind every card with a smaller
\* key and every earlier card with an equal key (sorted is stable)
sorted_rank(cards, i) ==
    1 + Cardinality({ j \in 1..Len(cards) :
                        \/ tuple_less(review_key(cards[j]), review_key(cards[i]))
                        \/ /\ review_key(cards[j]) = review_key(cards[i])
                           /\ j < i })

\* sorted(cards, key=...)
sorted_by_key(cards) ==
    [ r \in 1..Len(cards) |->
        cards[CHOOSE i \in 1..Len(cards) : sorted_rank(cards, i) = r] ]

\* list[:count]: a negative count is taken from the end
slice_to(list, count) ==
    LET stop == IF count < 0
                THEN (IF Len(list) + count < 0 THEN 0 ELSE Len(list) + count)
                ELSE (IF count > Len(list) THEN Len(list) ELSE count)
    IN  SubSeq(list, 1, stop)

\* get_cards_to_review: [] when the set does not load or has no cards
get_cards_to_review(st, set_id, count) ==
    LET found == get_set(st, set_id)
    IN  IF found = None \/ found[1].cards = <<>>
        THEN <<>>
        ELSE slice_to(sorted_by_key(found[1].cards), count)

\* mutant: the difficulty stored as given
clamp_difficulty_none(difficulty) == difficulty

\* max(0, min(3, difficulty))
clamp_difficulty(difficulty) ==
    LET inner == IF difficulty < 3 THEN difficulty ELSE 3
    IN  IF inner > 0 THEN inner ELSE 0

\* the body of the loop of record_review on the card found
review_card(card, difficulty, now) ==
    [card EXCEPT !.last_reviewed = Some(now),
                 !.review_count = @ + 1,
                 !.difficulty = clamp_difficulty(difficulty)]

\* the position of the first card with the id, 0 if there is none
card_position(cards, card_id) ==
    IF \E i \in 1..Len(cards) : cards[i].id = card_id
    THEN CHOOSE i \in 1..Len(cards) :
            /\ cards[i].id = card_id
            /\ \A j \in 1..(i - 1) : cards[j].id # card_id
    ELSE 0

\* mutant: every card of the set is reviewed
record_review_every_card(st, set_id, card_id, difficulty, now) ==
    LET found == get_set(st, set_id)
    IN  IF found = None
        THEN [store |-> st, ret |-> RetNone]
        ELSE LET flashcard_set ==
                     [found[1] EXCEPT
                        !.cards = [ i \in 1..Len(@) |-> review_card(@[i], difficulty, now) ],
                        !.updated_at = now]
             IN  [store |-> save_set(st, flashcard_set), ret |-> RetSet(flashcard_set)]

\* mutant: nothing is saved when the card is not in the set
record_review_found_only(st, set_id, card_id, difficulty, now) ==
    LET found == get_set(st, set_id)
    IN  IF found = None
        THEN [store |-> st, ret |-> RetNone]
        ELSE LET pos == card_position(found[1].cards, card_id)
                 flashcard_set ==
                     [found[1] EXCEPT
                        !.cards = [ i \in 1..Len(@) |->
                                      IF i = pos THEN review_card(@[i], difficulty, now)
                                      ELSE @[i] ],
                        !.updated_at = now]
             IN  IF pos = 0
                 THEN [store |-> st, ret |-> RetSet(found[1])]
                 ELSE [store |-> save_set(st, flashcard_set), ret |-> RetSet(flashcard_set)]

\* record_review: None when the set does not load; else the first card with
\* the id, if any, is reviewed, updated_at is set and the set is saved
record_review(st, set_id, card_id, difficulty, now) ==
    LET found == get_set(st, set_id)
    IN  IF found = None
        THEN [store |-> st, ret |-> RetNone]
        ELSE LET pos == card_position(found[1].cards, card_id)
                 flashcard_set ==
                     [found[1] EXCEPT
                        !.cards = [ i \in 1..Len(@) |->
                                      IF i = pos THEN review_card(@[i], difficulty, now)
                                      ELSE @[i] ],
                        !.updated_at = now]
             IN  [store |-> save_set(st, flashcard_set), ret |-> RetSet(flashcard_set)]

----------------------------------------------------------------------------
(* The flashcard operations as steps *)

CreateSet ==
    /\ clock < MaxClock
    /\ \E in \in SetInputs, set_id \in FreshSetIds(sets) :
         LET r == create_set(sets, set_id, in.title, in.description, clock)
         IN  /\ sets' = r.store
             /\ ret' = r.ret
             /\ op' = [name |-> "create_set", title |-> in.title,
                       description |-> in.description]
    /\ clock' = clock + 1
    /\ UNCHANGED <<calls, store, session>>

AddCard ==
    /\ clock < MaxClock
    /\ \E set_id \in SetLookupIds, in \in CardInputs :
         \E card_id \in (IF get_set(sets, set_id) = None THEN {0} ELSE FreshCardIds(sets)) :
            LET r == add_card(sets, set_id, card_id, in.front, in.back, in.tags, clock)
            IN  /\ sets' = r.store
                /\ ret' = r.ret
                /\ op' = [name |-> "add_card", set_id |-> set_id, front |-> in.front]
    /\ clock' = clock + 1
    /\ UNCHANGED <<calls, store, session>>

\* count arguments of get_cards_to_review: none, one, more than a set holds
ReviewCounts == {0, 1, MaxCards + 1}

GetCardsToReview ==
    /\ \E set_id \in SetLookupIds, count \in ReviewCounts :
         /\ ret' = RetList(get_cards_to_review(sets, set_id, count))
         /\ op' = [name |-> "get_cards_to_review", set_id |-> set_id, count |-> count]
    /\ UNCHANGED <<calls, store, sets, session, clock>>

RecordReview ==
    /\ clock < MaxClock
    /\ \E set_id \in SetLookupIds, card_id \in CardLookupIds, difficulty \in Difficulties :
         LET r == record_review(sets, set_id, card_id, difficulty, clock)
         IN  /\ sets' = r.store
             /\ ret' = r.ret
             /\ op' = [name |-> "record_review", set_id |-> set_id,
                       card_id |-> card_id, difficulty |-> difficulty]
    /\ clock' = clock + 1
    /\ UNCHANGED <<calls, store, session>>

\* the arguments of the k-th add_card of a set built before the first step
SeedCard(k) ==
    IF k % 2 = 1 THEN [front |-> "2+2", back |-> "4", tags |-> None]
    ELSE [front |-> "cell", back |-> "unit of life", tags |-> Some(<<"bio">>)]

\* the directory after create_set and k add_card calls, made before time 0
RECURSIVE BuildSet(_)
BuildSet(k) ==
    IF k = 0
    THEN create_set(EmptySets, 1, "Arithmetic", "", 0 - MaxCards - 1).store
    ELSE add_card(BuildSet(k - 1), 1, k, SeedCard(k).front, SeedCard(k).back,
                  SeedCard(k).tags, k - MaxCards - 1).store

InitCards ==
    /\ store = EmptyStore
    /\ sets \in {EmptySets} \cup { BuildSet(k) : k \in 0..MaxCards }
    /\ calls = NoCalls
    /\ session = NoSession
    /\ ret = RetNone
    /\ op = [name |-> "init"]
    /\ clock = 0

NextCards == CreateSet \/ AddCard \/ GetCardsToReview \/ RecordReview

SpecCards == InitCards /\ [][NextCards]_vars

----------------------------------------------------------------------------
(* Two threads in add_question: the file is read (line 72) and, after the   *)
(* question is appended to the copy in memory, written whole (line 90);     *)
(* nothing is locked between the two.  A write is one step here.            *)

\* the question ids uuid4 has handed to calls that have not written yet
InFlightQuestionIds(cs) ==
    { cs[t].quiz.questions[Len(cs[t].quiz.questions)].id
      : t \in { u \in Threads : cs[u].pc = "loaded" } }

\* mutant: the file is read again under a lock and the new question added to it
add_question_write_locked(st, quiz) ==
    LET current == get_quiz(st, quiz.id)[1]
    IN  save_quiz(st, [current EXCEPT
                         !.questions = Append(@, quiz.questions[Len(quiz.questions)]),
                         !.updated_at = quiz.updated_at])

\* self._save_quiz(quiz) of add_question: the copy in memory replaces the file
add_question_write(st, quiz) == save_quiz(st, quiz)

\* lines 72-87 of add_question in thread t
BeginAddQuestion(t) ==
    /\ calls[t].pc = "idle"
    /\ clock < MaxClock
    /\ \E quiz_id \in LookupIds, in \in QuestionInputs :
         LET found == get_quiz(store, quiz_id)
         IN  /\ IF found = None
                THEN /\ calls' = [calls EXCEPT ![t] = [pc |-> "returned", ret |-> RetNone]]
                     /\ ret' = RetNone
                ELSE \E question_id \in FreshQuestionIds(store) \ InFlightQuestionIds(calls) :
                       /\ calls' = [calls EXCEPT ![t] =
                                      [ pc |-> "loaded",
                                        read |-> found[1],
                                        quiz |-> append_question(found[1],
                                                    new_question(question_id, in.question_text,
                                                                 in.answers,
                                                                 in.correct_answer_index,
                                                                 in.explanation),
                                                    clock) ]]
                       /\ ret' = ret
             /\ op' = [name |-> "add_question: read", thread |-> t, quiz_id |-> quiz_id]
    /\ clock' = clock + 1
    /\ UNCHANGED <<store, sets, session>>

\* lines 90-92 of add_question in thread t
FinishAddQuestion(t) ==
    /\ calls[t].pc = "loaded"
    /\ store' = add_question_write(store, calls[t].quiz)
    /\ calls' = [calls EXCEPT ![t] = [ pc |-> "returned",
                                       read |-> calls[t].read,
                                       quiz |-> calls[t].quiz,
                                       ret |-> RetQuiz(calls[t].quiz) ]]
    /\ ret' = RetQuiz(calls[t].quiz)
    /\ op' = [name |-> "add_question: write", thread |-> t, quiz_id |-> calls[t].quiz.id]
    /\ UNCHANGED <<sets, session, clock>>

InitRace ==
    /\ store \in { BuildBank(k, k) : k \in 0..(MaxQuestions - 1) }
    /\ sets = EmptySets
    /\ session = NoSession
    /\ calls = NoCalls
    /\ ret = RetNone
    /\ op = [name |-> "init"]
    /\ clock = 0

NextRace == \E t \in Threads : BeginAddQuestion(t) \/ FinishAddQuestion(t)

SpecRace == InitRace /\ [][NextRace]_vars

----------------------------------------------------------------------------
(* The store's operations on a directory that holds one file that does not *)
(* load (cut short, or not JSON)                                           *)

InitCorrupt ==
    /\ store \in { [EmptyStore EXCEPT ![i] = CorruptFile] : i \in QuizIds }
    /\ sets = EmptySets
    /\ session = NoSession
    /\ calls = NoCalls
    /\ ret = RetNone
    /\ op = [name |-> "init"]
    /\ clock = 0

NextCorrupt == CreateQuiz \/ AddQuestion \/ GetQuiz \/ ListQuizzes \/ GenerateQuizFromText

SpecCorrupt == InitCorrupt /\ [][NextCorrupt]_vars

----------------------------------------------------------------------------
(* The operations that only read the two directories, on a bank of         *)
(* MaxSessionBank questions and a set of MaxCards cards, with a caller     *)
(* that answers where the cursor points or jumps to the last question      *)

ListSets ==
    /\ \E order \in DirOrders(sets) :
         /\ ret' = RetList(list_sets(sets, order))
         /\ op' = [name |-> "list_sets"]
    /\ UNCHANGED <<store, sets, session, calls, clock>>

InitReads ==
    /\ store = BuildBank(MaxSessionBank, MaxSessionBank)
    /\ sets = BuildSet(MaxCards)
    /\ session = NoSession
    /\ calls = NoCalls
    /\ ret = RetNone
    /\ op = [name |-> "init"]
    /\ clock = 0

NextReads ==
    \/ GetCardsToReview
    \/ ListQuizzes
    \/ ListSets
    \/ GetRandomQuestions
    \/ CreateQuizSession
    \/ AnswerAtCursor
    \/ AnswerLastQuestion

SpecReads == InitReads /\ [][NextReads]_vars

----------------------------------------------------------------------------

Init ==
    /\ store = EmptyStore
    /\ session = NoSession
    /\ sets = EmptySets
    /\ calls = NoCalls
    /\ ret = RetNone
    /\ op = [name |-> "init"]
    /\ clock = 0

Next == CreateQuiz \/ AddQuestion \/ GetQuiz \/ ListQuizzes \/ GenerateQuizFromText

Spec == Init /\ [][Next]_vars

----------------------------------------------------------------------------
(* Properties *)

Abs(x) == IF x < 0 THEN -x ELSE x

Min(a, b) == IF a < b THEN a ELSE b

\* the call just made was answer_question with an index 0..len-1
AnsweredInRange ==
    /\ op.name = "answer_question"
    /\ 0 <= op.question_index
    /\ op.question_index < Len(session.questions)

\* the session question the call just made addressed (index 0..len-1)
Addressed == session.questions[op.question_index + 1]

\* the stored bank's question with the identifier of session question q, or None
BankQuestion(q) ==
    LET found == get_quiz(store, session.quiz_id)
    IN  IF found = None THEN None
        ELSE LET hits == { k \in 1..Len(found[1].questions) : found[1].questions[k].id = q.id }
             IN  IF hits = {} THEN None ELSE Some(found[1].questions[CHOOSE k \in hits : TRUE])

NumCorrect == Cardinality({ k \in 1..Len(session.questions) :
                            session.questions[k].is_correct = Some(TRUE) })

(* C1: in a session handed out by create_quiz_session, a question that is  *)
(* still unanswered (user_answer_index is None) does not carry the bank's  *)
(* correct_answer_index.                                                    *)
C1_NoCorrectIndexBeforeAnswer ==
    session # NoSession =>
        \A k \in 1..Len(session.questions) :
            session.questions[k].user_answer_index = None
                => "correct_answer_index" \notin DOMAIN session.questions[k]

(* C2, as stated: when answer_question completes a session of N questions, *)
(* the stored score is 100 * C / N rounded to the nearest whole number     *)
(* with a value exactly halfway rounded up, C the number of questions      *)
(* whose is_correct is true.                                               *)
C2_ScoreRoundsHalfUp ==
    (op.name = "answer_question" /\ op.completed) =>
        session.score = Some((200 * NumCorrect + Len(session.questions))
                                \div (2 * Len(session.questions)))

(* C2, amended: the stored score is an integer nearest to 100 * C / N      *)
(* (at most one half away), and where 100 * C / N is exactly halfway       *)
(* between two integers it is the even one of the two.                     *)
C2_ScoreNearestTieToEven ==
    (op.name = "answer_question" /\ op.completed) =>
        /\ session.completed_at # None
        /\ session.score # None
        /\ 2 * Abs(Len(session.questions) * session.score[1] - 100 * NumCorrect)
              <= Len(session.questions)
        /\ (2 * Abs(Len(session.questions) * session.score[1] - 100 * NumCorrect)
              = Len(session.questions)) => session.score[1] % 2 = 0

\* a session of 8 questions completed with exactly one correct: 12.5 percent
C2_Witness ==
    /\ op.name = "answer_question"
    /\ op.completed
    /\ Len(session.questions) = 8
    /\ NumCorrect = 1

(* C3: the session answer_question returns for a question index outside   *)
(* 0..len-1 (at or past the end, or negative) is the session it was        *)
(* passed, with nothing changed.                                           *)
C3_OutOfRangeIsNoOp ==
    [][ ( /\ op'.name = "answer_question"
          /\ (op'.question_index >= Len(session.questions) \/ op'.question_index < 0)
          /\ ret'.kind = "session" )
        => (ret'.session = session /\ session' = session) ]_vars

(* C4: a second answer_question on the same in-range index with another    *)
(* answer index leaves the question with the second call's answer and the  *)
(* second call's correctness, and current_question_index at index + 1.     *)
C4_ReanswerOverwrites ==
    (AnsweredInRange /\ op.prev_answer \notin {None, Some(op.answer_index)}) =>
        /\ Addressed.user_answer_index = Some(op.answer_index)
        /\ BankQuestion(Addressed) # None
        /\ Addressed.is_correct =
              Some(op.answer_index = BankQuestion(Addressed)[1].correct_answer_index)
        /\ session.current_question_index = op.question_index + 1

\* a wrong first answer replaced by the right one
C4_Witness ==
    /\ AnsweredInRange
    /\ op.prev_answer \notin {None, Some(op.answer_index)}
    /\ Addressed.is_correct = Some(TRUE)

(* C5: a session returned by create_quiz_session has user_answer_index and *)
(* is_correct None on every question, current_question_index 0, and        *)
(* completed_at and score None.                                            *)
C5_FreshSession ==
    (op.name = "create_quiz_session" /\ ret.kind = "session") =>
        /\ session = ret.session
        /\ \A k \in 1..Len(session.questions) :
              /\ session.questions[k].user_answer_index = None
              /\ session.questions[k].is_correct = None
        /\ session.current_question_index = 0
        /\ session.completed_at = None
        /\ session.score = None

C5_Witness ==
    /\ op.name = "create_quiz_session"
    /\ ret.kind = "session"
    /\ Len(session.questions) >= 2

(* C6: for an in-range index whose question is in the stored bank,         *)
(* answer_question sets is_correct to (answer index = the stored bank      *)
(* question's correct_answer_index), whatever correct_answer_index the     *)
(* session's own copy of the question holds.                               *)
C6_GradesAgainstBank ==
    (AnsweredInRange /\ BankQuestion(Addressed) # None) =>
        Addressed.is_correct =
            Some(op.answer_index = BankQuestion(Addressed)[1].correct_answer_index)

\* graded right although the session's copy names another answer
C6_Witness ==
    /\ AnsweredInRange
    /\ BankQuestion(Addressed) # None
    /\ Addressed.correct_answer_index # BankQuestion(Addressed)[1].correct_answer_index
    /\ Addressed.is_correct = Some(TRUE)

(* C7: create_quiz_session returns None when the quiz id does not resolve  *)
(* or the stored bank has no questions; no session with an empty question  *)
(* list is ever returned or held.                                          *)
C7_NoEmptySession ==
    /\ (op.name = "create_quiz_session" /\
          (get_quiz(store, op.quiz_id) = None
             \/ get_quiz(store, op.quiz_id)[1].questions = <<>>)) => ret = RetNone
    /\ ret.kind = "session" => Len(ret.session.questions) >= 1
    /\ session # NoSession => Len(session.questions) >= 1

\* the bank exists and is empty: refused
C7_Witness ==
    /\ op.name = "create_quiz_session"
    /\ get_quiz(store, op.quiz_id) # None
    /\ get_quiz(store, op.quiz_id)[1].questions = <<>>
    /\ ret = RetNone

\* session question sq is bank question bq with the two answer fields added
CopyOf(sq, bq) ==
    /\ sq.id = bq.id
    /\ sq.question_text = bq.question_text
    /\ sq.answers = bq.answers
    /\ sq.correct_answer_index = bq.correct_answer_index
    /\ sq.explanation = bq.explanation

(* C8: a session created from a bank of N >= 1 questions holds exactly     *)
(* min(5, N) questions, each a question of the bank, none twice; for       *)
(* N <= 5 they are all the bank's questions.                               *)
C8_SamplingContract ==
    (op.name = "create_quiz_session" /\ ret.kind = "session") =>
        LET bank == get_quiz(store, op.quiz_id)[1].questions
            qs == session.questions
        IN  /\ Len(bank) >= 1
            /\ Len(qs) = Min(DefaultCount, Len(bank))
            /\ \A k \in 1..Len(qs) : \E j \in 1..Len(bank) : CopyOf(qs[k], bank[j])
            /\ \A k, m \in 1..Len(qs) : k # m => qs[k].id # qs[m].id
            /\ Len(bank) <= DefaultCount =>
                  { qs[k].id : k \in 1..Len(qs) } = { bank[j].id : j \in 1..Len(bank) }

\* a sample of a larger bank that starts with the bank's last question
C8_Witness ==
    /\ op.name = "create_quiz_session"
    /\ ret.kind = "session"
    /\ Len(get_quiz(store, op.quiz_id)[1].questions) > DefaultCount
    /\ session.questions[1].id = Len(get_quiz(store, op.quiz_id)[1].questions)

(* C9: get_quiz of the id create_quiz returned yields a bank with that id, *)
(* the given title, description and category and no questions; and         *)
(* create_quiz leaves every bank stored before it as it was.               *)
C9_CreateGetRoundTrip ==
    /\ [](op.name = "create_quiz" =>
            /\ ret.kind = "quiz"
            /\ get_quiz(store, ret.quiz.id) # None
            /\ LET got == get_quiz(store, ret.quiz.id)[1]
               IN  /\ got.id = ret.quiz.id
                   /\ got.title = op.title
                   /\ got.description = op.description
                   /\ got.category = op.category
                   /\ got.questions = <<>>)
    /\ [][ op'.name = "create_quiz" =>
             \A i \in QuizIds : path_exists(store, i) => store'[i] = store[i] ]_vars

\* a bank created while another bank, with questions, is stored
C9_Witness ==
    /\ op.name = "create_quiz"
    /\ \E i \in QuizIds :
          /\ i # ret.quiz.id
          /\ get_quiz(store, i) # None
          /\ get_quiz(store, i)[1].questions # <<>>

(* C10: after an add_question that returned a bank, get_quiz returns the   *)
(* bank with its former questions in their order followed by one new       *)
(* question holding the given answers and correct_answer_index; id, title, *)
(* description, category and created_at are as before.                     *)
C10_AddQuestionAppends ==
    [][ (op'.name = "add_question" /\ ret'.kind = "quiz") =>
          /\ get_quiz(store, op'.quiz_id) # None
          /\ get_quiz(store', op'.quiz_id) # None
          /\ LET old == get_quiz(store, op'.quiz_id)[1]
                 new == get_quiz(store', op'.quiz_id)[1]
             IN  /\ Len(new.questions) = Len(old.questions) + 1
                 /\ SubSeq(new.questions, 1, Len(old.questions)) = old.questions
                 /\ new.questions[Len(new.questions)].answers = op'.answers
                 /\ new.questions[Len(new.questions)].correct_answer_index
                       = op'.correct_answer_index
                 /\ new.id = old.id
                 /\ new.title = old.title
                 /\ new.description = old.description
                 /\ new.category = old.category
                 /\ new.created_at = old.created_at ]_vars

\* a question added behind an earlier one
C10_Witness ==
    /\ op.name = "add_question"
    /\ ret.kind = "quiz"
    /\ Len(ret.quiz.questions) >= 2

(* C11: add_question on an id that resolves to no stored bank returns     *)
(* nothing, and no record of the store is created, modified or removed.    *)
C11_AddToMissingBankIsNoOp ==
    [][ (op'.name = "add_question" /\ get_quiz(store, op'.quiz_id) = None) =>
          /\ ret' = RetNone
          /\ store' = store ]_vars

\* add_question found no bank while other banks and a free id existed
C11_Witness ==
    /\ op.name = "add_question"
    /\ ret = RetNone
    /\ op.quiz_id \in QuizIds
    /\ \E i \in QuizIds : path_exists(store, i)

(* C12: every question of every stored bank has a correct_answer_index     *)
(* that is at least 0 and less than the number of its answers.             *)
C12_CorrectIndexInRange ==
    \A i \in QuizIds :
        get_quiz(store, i) # None =>
            LET qs == get_quiz(store, i)[1].questions
            IN  \A k \in 1..Len(qs) :
                    /\ 0 <= qs[k].correct_answer_index
                    /\ qs[k].correct_answer_index < Len(qs[k].answers)

(* C13: list_quizzes with a non-empty category returns exactly one summary *)
(* for each stored bank of that category and none for any other bank; a    *)
(* summary has no questions field and its question_count is the number of  *)
(* questions of the stored bank; the call leaves the store as it was.      *)
C13_ListByCategory ==
    /\ []((op.name = "list_quizzes" /\ op.category \notin {None, Some("")}) =>
            /\ ret.kind = "list"
            /\ \A i \in QuizIds :
                  LET hits == { k \in 1..Len(ret.list) : ret.list[k].id = i }
                  IN  IF get_quiz(store, i) # None
                         /\ Some(get_quiz(store, i)[1].category) = op.category
                      THEN /\ Cardinality(hits) = 1
                           /\ \A k \in hits :
                                 /\ "questions" \notin DOMAIN ret.list[k]
                                 /\ ret.list[k].question_count
                                       = Len(get_quiz(store, i)[1].questions)
                      ELSE hits = {}
            /\ \A k \in 1..Len(ret.list) : ret.list[k].id \in QuizIds)
    /\ [][ op'.name = "list_quizzes" => store' = store ]_vars

\* a listing of one bank with a question while a bank of another category is stored
C13_Witness ==
    /\ op.name = "list_quizzes"
    /\ op.category = Some("general")
    /\ Len(ret.list) = 1
    /\ ret.list[1].question_count >= 1
    /\ \E i \in QuizIds :
          /\ get_quiz(store, i) # None
          /\ get_quiz(store, i)[1].category # "general"

\* the cards of the stored set set_id, <<>> when it does not load
StoredCards(st, set_id) ==
    IF get_set(st, set_id) = None THEN <<>> ELSE get_set(st, set_id)[1].cards

NeverReviewed(card) == card.last_reviewed = None

(* C14: in the list get_cards_to_review returns, no ever-reviewed card     *)
(* stands before a never-reviewed card, and of two cards of the same       *)
(* reviewed status the earlier one has at least the difficulty of the      *)
(* later one.                                                              *)
C14_HigherDifficultyFirst ==
    op.name = "get_cards_to_review" =>
        \A a, b \in 1..Len(ret.list) :
            a < b =>
                /\ ~(~NeverReviewed(ret.list[a]) /\ NeverReviewed(ret.list[b]))
                /\ NeverReviewed(ret.list[a]) = NeverReviewed(ret.list[b])
                      => ret.list[a].difficulty >= ret.list[b].difficulty

(* C15: of two cards of the same reviewed status and the same difficulty   *)
(* in the list get_cards_to_review returns, the earlier one has at most    *)
(* the review_count of the later one.                                      *)
C15_LeastReviewedFirst ==
    op.name = "get_cards_to_review" =>
        \A a, b \in 1..Len(ret.list) :
            ( /\ a < b
              /\ NeverReviewed(ret.list[a]) = NeverReviewed(ret.list[b])
              /\ ret.list[a].difficulty = ret.list[b].difficulty )
            => ret.list[a].review_count <= ret.list[b].review_count

(* C16: get_cards_to_review with a count >= 0 on a set of n stored cards   *)
(* returns min(count, n) cards, all of them stored cards and no card       *)
(* twice; the list is the beginning of the list returned for a count of    *)
(* n, which holds all n cards; and two returned cards with the same        *)
(* reviewed status, difficulty and review_count stand in the order in      *)
(* which they are stored.                                                  *)
C16_PrefixOfStableSort ==
    (op.name = "get_cards_to_review" /\ op.count >= 0) =>
        LET cards == StoredCards(sets, op.set_id)
            n == Len(cards)
            full == get_cards_to_review(sets, op.set_id, n)
            got == ret.list
            StoredAt(k) == CHOOSE i \in 1..n : cards[i] = got[k]
        IN  /\ Len(got) = Min(op.count, n)
            /\ \A k \in 1..Len(got) : \E i \in 1..n : cards[i] = got[k]
            /\ \A a, b \in 1..Len(got) : a # b => got[a].id # got[b].id
            /\ Len(full) = n
            /\ got = SubSeq(full, 1, Len(got))
            /\ \A a, b \in 1..Len(got) :
                  ( /\ a < b
                    /\ NeverReviewed(got[a]) = NeverReviewed(got[b])
                    /\ got[a].difficulty = got[b].difficulty
                    /\ got[a].review_count = got[b].review_count )
                  => StoredAt(a) < StoredAt(b)

\* both cards of a set, reviewed once each with the same difficulty, returned
\* for a count past the size of the set
C16_Witness ==
    /\ op.name = "get_cards_to_review"
    /\ op.count > 2
    /\ Len(ret.list) = 2
    /\ ret.list[1].review_count = 1
    /\ ret.list[2].review_count = 1
    /\ ret.list[1].difficulty = ret.list[2].difficulty

(* C17: record_review on a card of a stored set adds 1 to the card's       *)
(* review_count, sets its last_reviewed to a value that is not None and    *)
(* its difficulty to the given one brought into 0..3 (7 gives 3, -2 gives  *)
(* 0), leaves every other card as it was, and get_set afterwards returns   *)
(* the set the call returned.                                              *)
C17_ReviewUpdatesOneCard ==
    [][ ( /\ op'.name = "record_review"
          /\ \E i \in 1..Len(StoredCards(sets, op'.set_id)) :
                StoredCards(sets, op'.set_id)[i].id = op'.card_id )
        => LET old == StoredCards(sets, op'.set_id)
               new == StoredCards(sets', op'.set_id)
               d == op'.difficulty
           IN  /\ Len(new) = Len(old)
               /\ \A i \in 1..Len(old) :
                     IF old[i].id = op'.card_id
                     THEN /\ new[i].review_count = old[i].review_count + 1
                          /\ new[i].last_reviewed # None
                          /\ new[i].difficulty = (IF d > 3 THEN 3 ELSE IF d < 0 THEN 0 ELSE d)
                          /\ d = 7 => new[i].difficulty = 3
                          /\ d = 0 - 2 => new[i].difficulty = 0
                          /\ new[i].id = old[i].id
                          /\ new[i].front = old[i].front
                          /\ new[i].back = old[i].back
                     ELSE new[i] = old[i]
               /\ ret'.kind = "set"
               /\ get_set(sets', op'.set_id) = Some(ret'.set) ]_vars

\* a second review of a card, with difficulty 7, in a set with another card
C17_Witness ==
    /\ op.name = "record_review"
    /\ op.difficulty = 7
    /\ ret.kind = "set"
    /\ Len(ret.set.cards) = 2
    /\ \E i \in 1..2 :
          /\ ret.set.cards[i].id = op.card_id
          /\ ret.set.cards[i].review_count = 2
          /\ ret.set.cards[i].difficulty = 3

(* C18: record_review with a card id that no card of the stored set has    *)
(* leaves the cards of the set as they were, stores the set with           *)
(* updated_at set to the time of the call, later than before, and returns  *)
(* the set; record_review on a set id that does not resolve returns None   *)
(* and leaves every file as it was.                                        *)
C18_ReviewOfMissingCard ==
    [][ op'.name = "record_review" =>
          IF get_set(sets, op'.set_id) = None
          THEN ret' = RetNone /\ sets' = sets
          ELSE (\A i \in 1..Len(StoredCards(sets, op'.set_id)) :
                    StoredCards(sets, op'.set_id)[i].id # op'.card_id)
               => LET old == get_set(sets, op'.set_id)[1]
                      new == get_set(sets', op'.set_id)[1]
                  IN  /\ get_set(sets', op'.set_id) # None
                      /\ new.cards = old.cards
                      /\ new.updated_at = clock
                      /\ new.updated_at > old.updated_at
                      /\ new = [old EXCEPT !.updated_at = clock]
                      /\ ret' = RetSet(new) ]_vars

\* a review of a card id that is not in a set whose card was reviewed before
C18_Witness ==
    /\ op.name = "record_review"
    /\ ret.kind = "set"
    /\ \A i \in 1..Len(ret.set.cards) : ret.set.cards[i].id # op.card_id
    /\ \E i \in 1..Len(ret.set.cards) : ret.set.cards[i].review_count >= 1

(* C19: every stored card has a difficulty in 0..3 and a review_count of   *)
(* at least 0, and no step makes the review_count of a stored card         *)
(* smaller.                                                                *)
C19_CardInvariants ==
    /\ [](\A s \in SetIds : \A i \in 1..Len(StoredCards(sets, s)) :
              /\ StoredCards(sets, s)[i].difficulty \in 0..3
              /\ StoredCards(sets, s)[i].review_count >= 0)
    /\ [][ \A s \in SetIds :
              LET old == StoredCards(sets, s)
                  new == StoredCards(sets', s)
              IN  \A i \in 1..Len(old) :
                      /\ i <= Len(new)
                      /\ new[i].id = old[i].id
                      /\ new[i].review_count >= old[i].review_count ]_vars

\* a card reviewed three times, last with difficulty -2
C19_Witness ==
    /\ op.name = "record_review"
    /\ op.difficulty = 0 - 2
    /\ \E i \in 1..Len(StoredCards(sets, op.set_id)) :
          /\ StoredCards(sets, op.set_id)[i].id = op.card_id
          /\ StoredCards(sets, op.set_id)[i].review_count = 3
          /\ StoredCards(sets, op.set_id)[i].difficulty = 0

(* C20: generate_quiz_from_text, whatever the text and the question count, *)
(* stores one bank that was not stored before, of category                 *)
(* "auto-generated", holding exactly one question: the fixed placeholder   *)
(* with its four answers and correct_answer_index 0.                       *)
C20_GeneratePersistsPlaceholder ==
    /\ [](op.name = "generate_quiz_from_text" =>
            /\ ret.kind = "quiz"
            /\ get_quiz(store, ret.quiz.id) # None
            /\ LET bank == get_quiz(store, ret.quiz.id)[1]
               IN  /\ bank.category = "auto-generated"
                   /\ Len(bank.questions) = 1
                   /\ bank.questions[1].question_text
                         = "What is the main purpose of this feature?"
                   /\ bank.questions[1].answers
                         = << "To demonstrate quiz functionality",
                              "To test your knowledge",
                              "To generate real questions from text",
                              "To replace human-created quizzes" >>
                   /\ bank.questions[1].correct_answer_index = 0)
    /\ [][ op'.name = "generate_quiz_from_text" =>
             \E i \in QuizIds :
                 /\ ~path_exists(store, i)
                 /\ path_exists(store', i)
                 /\ ret'.quiz.id = i
                 /\ \A j \in QuizIds \ {i} : store'[j] = store[j] ]_vars

\* a bank generated from a text, five questions asked for, beside a stored bank
C20_Witness ==
    /\ op.name = "generate_quiz_from_text"
    /\ op.question_count = 5
    /\ op.text_content # ""
    /\ \E i \in QuizIds : i # ret.quiz.id /\ path_exists(store, i)

\* the question a call that read the file appended to its copy
NewQuestionOf(call) == call.quiz.questions[Len(call.quiz.questions)]

\* both threads returned a bank from add_question after reading the same file
BothReadTheSame ==
    /\ \A t \in Threads : calls[t].pc = "returned" /\ calls[t].ret.kind = "quiz"
    /\ calls["t1"].read = calls["t2"].read

(* C21: when two add_question calls on one bank both read the file before  *)
(* either wrote it, both return a bank, and the bank stored after both     *)
(* have written is the copy of one of them: it holds one question more     *)
(* than the file that was read, and the other call's question is lost.     *)
C21_LostUpdate ==
    BothReadTheSame =>
        LET stored == get_quiz(store, calls["t1"].read.id)[1]
        IN  /\ Len(stored.questions) = Len(calls["t1"].read.questions) + 1
            /\ \E t \in Threads :
                  /\ stored = calls[t].quiz
                  /\ \A u \in Threads \ {t} :
                        \A k \in 1..Len(stored.questions) :
                            stored.questions[k].id # NewQuestionOf(calls[u]).id

\* both calls returned a bank and the stored bank lacks the first thread's question
C21_Witness ==
    /\ BothReadTheSame
    /\ \A k \in 1..Len(get_quiz(store, calls["t1"].read.id)[1].questions) :
          get_quiz(store, calls["t1"].read.id)[1].questions[k].id
              # NewQuestionOf(calls["t1"]).id

(* C22: an answer_question call on a session whose completed_at is set     *)
(* leaves user_answer_index and is_correct of every question,              *)
(* current_question_index, completed_at and score as they were (stated     *)
(* here for the calls with a question index of 0 or more).                 *)
C22_CompletedIsTerminal ==
    [][ ( /\ op'.name = "answer_question"
          /\ op'.question_index >= 0
          /\ session # NoSession
          /\ session.completed_at # None )
        => /\ \A k \in 1..Len(session.questions) :
                 /\ session'.questions[k].user_answer_index
                       = session.questions[k].user_answer_index
                 /\ session'.questions[k].is_correct = session.questions[k].is_correct
           /\ session'.current_question_index = session.current_question_index
           /\ session'.completed_at = session.completed_at
           /\ session'.score = session.score ]_vars

(* C23: the current_question_index of the session is at least 0 and at     *)
(* most the number of its questions.                                       *)
C23_ProgressIndexInBounds ==
    session # NoSession =>
        /\ 0 <= session.current_question_index
        /\ session.current_question_index <= Len(session.questions)

(* C24: every answer_question call returns a session; none raises.         *)
C24_AnswerNeverRaises ==
    op.name = "answer_question" => ret.kind = "session"

(* C26: the score of the session is set exactly when its completed_at is   *)
(* set, a score that is set is an integer in 0..100, and no                *)
(* answer_question call clears a completed_at that is set.                 *)
C26_ScoreWithCompletion ==
    /\ [](session # NoSession =>
            /\ (session.score # None) <=> (session.completed_at # None)
            /\ session.score # None => session.score[1] \in 0..100)
    /\ [][ ( /\ op'.name = "answer_question"
             /\ session # NoSession
             /\ session.completed_at # None )
           => session'.completed_at # None ]_vars

\* a completed session of two questions, one correct, answered again without
\* reaching the end
C26_Witness ==
    /\ op.name = "answer_question"
    /\ ~op.completed
    /\ ret.kind = "session"
    /\ session.completed_at # None
    /\ session.score = Some(50)

(* C27: in a session whose completed_at is set every question has a        *)
(* user_answer_index and an is_correct that are not None.                  *)
C27_CompletedMeansAllAnswered ==
    (session # NoSession /\ session.completed_at # None) =>
        \A k \in 1..Len(session.questions) :
            /\ session.questions[k].user_answer_index # None
            /\ session.questions[k].is_correct # None

\* the score of sess, if set, is the rounded percentage of its questions that
\* are correct now, and completed_at is set exactly when the cursor is at the end
ScoreConsistent(sess) ==
    sess.score # None =>
        /\ sess.score = Some(round_percent(correct_count(sess.questions), Len(sess.questions)))
        /\ (sess.completed_at # None) <=> (sess.current_question_index = Len(sess.questions))

(* C28: a score that is set equals 100 * C / N rounded, C the number of    *)
(* questions whose is_correct is true now and N the number of questions,   *)
(* and completed_at is set exactly when current_question_index = N; an     *)
(* answer_question call with a question index of 0 or more on a session    *)
(* of which this is true leaves it true, also when the session is          *)
(* completed and the question is not the last one.                         *)
C28_ScoreFollowsAnswers ==
    [][ ( /\ op'.name = "answer_question"
          /\ op'.question_index >= 0
          /\ session # NoSession
          /\ ScoreConsistent(session) )
        => ScoreConsistent(session') ]_vars

(* C29: the bank generate_quiz_from_text returns is the bank stored under  *)
(* its id: it holds the one placeholder question and its updated_at is     *)
(* that of the stored record.                                              *)
C29_GenerateReturnsStored ==
    op.name = "generate_quiz_from_text" =>
        /\ Len(ret.quiz.questions) = 1
        /\ ret.quiz.updated_at = get_quiz(store, ret.quiz.id)[1].updated_at
        /\ ret.quiz = get_quiz(store, ret.quiz.id)[1]

(* C30: with a file that does not load in the directory, list_quizzes      *)
(* returns a summary for every stored bank that loads and passes the       *)
(* category filter, in whatever order the directory is enumerated.         *)
C30_ListingSkipsCorrupt ==
    op.name = "list_quizzes" =>
        \A i \in QuizIds :
            ( /\ get_quiz(store, i) # None
              /\ \/ op.category \in {None, Some("")}
                 \/ op.category = Some(get_quiz(store, i)[1].category) )
            => \E k \in 1..Len(ret.list) : ret.list[k].id = i

\* the calls that are documented as reading only
ReadOnlyCalls ==
    { "get_cards_to_review", "list_quizzes", "list_sets", "get_random_questions",
      "create_quiz_session", "answer_question" }

(* C25: get_cards_to_review, list_quizzes, list_sets, get_random_questions, *)
(* create_quiz_session and answer_question leave every file of the bank    *)
(* directory and of the flashcard directory as it was, content and order;  *)
(* and no file of the bank directory holds a session.                      *)
C25_ReadsLeaveTheStore ==
    /\ [][ op'.name \in ReadOnlyCalls => (store' = store /\ sets' = sets) ]_vars
    /\ [](\A i \in QuizIds :
             get_quiz(store, i) # None =>
                 /\ "quiz_id" \notin DOMAIN get_quiz(store, i)[1]
                 /\ "completed_at" \notin DOMAIN get_quiz(store, i)[1])

\* a completed session that holds the questions in another order than the
\* stored bank, which is still the bank that was built
C25_Witness ==
    /\ op.name = "answer_question"
    /\ session # NoSession
    /\ session.completed_at # None
    /\ session.questions[1].id # get_quiz(store, session.quiz_id)[1].questions[1].id
    /\ session.questions[1].user_answer_index # None
    /\ store = BuildBank(MaxSessionBank, MaxSessionBank)
    /\ sets = BuildSet(MaxCards)

====
